---- MODULE Spec2Model ----
(***************************************************************************)
(* A model of the hecto terminal viewer: the Editor session (should_quit,  *)
(* location), its read-evaluate-print loop (Editor::run / Editor::repl),   *)
(* the key handling of Editor::handle_event / Editor::move_cursor, the     *)
(* redraw of Editor::refresh / Editor::draw_rows and the queue-then-flush  *)
(* terminal primitives of terminal.rs.                                     *)
(*                                                                         *)
(* The terminal device is the environment: it reports a size that may      *)
(* change between two queries (Resize), delivers input events (ReadEvent)  *)
(* and may fail any write, flush, size query or read with an I/O error.    *)
(***************************************************************************)
EXTENDS Integers, Sequences, FiniteSets

\* Largest width and height the device reports in the model.
MaxDim == 3

\* u16::MAX, the largest coordinate cursor::move_to accepts.
U16Max == 65535

VARIABLES
    should_quit,   \* Editor.should_quit
    location,      \* Editor.location: [col, row]
    size,          \* what terminal::size() would report now: [width, height]
    rawMode,       \* whether raw input mode is enabled on the device
    queue,         \* commands written to out() since the last execute()
    flushed,       \* the last non-empty batch of commands completed by an execute()
    pc,            \* position of Editor::run
    event,         \* the local `event` of Editor::repl (NoEvent outside its scope)
    result,        \* "Running", or what Editor::run returned: "Ok", "Io", "TryFromInt"
    before,        \* history: the session as it was when the last handle_event began
    resized,       \* history: the device changed its size since startup
    downRun,       \* history: Down presses handled in a row at an unchanged size
    quitRefreshes, \* history: refresh cycles completed while should_quit held
    quitReads,     \* history: input events read while should_quit held
    started,       \* history: terminal::initialize returned Ok
    entered,       \* history: the loop of Editor::repl was entered
    buffer,        \* View.buffer.lines, the document of a View
    file,          \* what fs::read_to_string answered to the last View::load
    oldBuffer,     \* history: View.buffer.lines when the last View::load began
    issued,        \* how many terminal calls of the current redraw cycle have run
    device         \* what the device has received during the current redraw cycle

\* The state of the units exercised on their own (View, the output sink); the
\* program started by main never touches it.
unitVars == <<buffer, file, oldBuffer, issued, device>>

vars == <<should_quit, location, size, rawMode, queue, flushed, pc, event,
          result, before, resized, downRun, quitRefreshes, quitReads,
          started, entered, buffer, file, oldBuffer, issued, device>>

----------------------------------------------------------------------------
(* usize arithmetic *)

\* usize::saturating_sub
saturating_sub(a, b) == IF a > b THEN a - b ELSE 0

\* usize::saturating_add; every operand of the model is far below usize::MAX,
\* which the model checker's integers cannot hold, so the sum never saturates.
saturating_add(a, b) == a + b

\* usize::saturating_div (the divisor is a non-zero literal at every call)
saturating_div(a, b) == a \div b

\* std::cmp::min
min(a, b) == IF a <= b THEN a ELSE b

----------------------------------------------------------------------------
(* Data *)

\* Location::default() / Position::default()
Origin == [col |-> 0, row |-> 0]

\* The sizes the device may report (crossterm reports two u16, zero included).
Sizes == [width : 0..MaxDim, height : 0..MaxDim]

\* The eight keys handle_event passes to move_cursor.
NavKeys == {"Up", "Down", "Left", "Right", "Home", "End", "PageUp", "PageDown"}

\* KeyCode values of the model: the navigation keys, Char(c) and one other key.
KeyCodes == [code : NavKeys \cup {"Enter"}, ch : {""}]
            \cup [code : {"Char"}, ch : {"q", "x"}]

\* KeyModifiers values of the model (bit sets).
Modifiers == {{}, {"CONTROL"}, {"CONTROL", "SHIFT"}}

\* KeyEventKind
Kinds == {"Press", "Release", "Repeat"}

\* Event::Key(KeyEvent { code, modifiers, kind, .. })
KeyEvent(code, ch, modifiers, kind) ==
    [type |-> "Key", code |-> code, ch |-> ch, modifiers |-> modifiers, kind |-> kind]

\* An Event that is not Event::Key.
OtherEvent(type) ==
    [type |-> type, code |-> "", ch |-> "", modifiers |-> {}, kind |-> ""]

\* No event: the loop's local `event` is not in scope.
NoEvent == OtherEvent("None")

\* The events crossterm::event::read() may return.
Events == {KeyEvent(k.code, k.ch, m, kd) : k \in KeyCodes, m \in Modifiers, kd \in Kinds}
          \cup {OtherEvent("Resize"), OtherEvent("FocusGained")}

----------------------------------------------------------------------------
(* Terminal commands (terminal.rs): what each primitive queues on out() *)

Cmd(op, col, row, text) == [op |-> op, col |-> col, row |-> row, text |-> text]

\* cursor::hide
hide == Cmd("Hide", 0, 0, <<>>)

\* cursor::show
show == Cmd("Show", 0, 0, <<>>)

\* terminal::clear_screen
clear_screen == Cmd("ClearAll", 0, 0, <<>>)

\* terminal::clear_line
clear_line == Cmd("ClearLine", 0, 0, <<>>)

\* terminal::print(s); s is a sequence of characters
print(s) == Cmd("Print", 0, 0, s)

\* A slip in move_to: the coordinates are cut to 16 bits instead of checked.
move_to_truncating(pos) ==
    [err |-> "None",
     cmds |-> <<Cmd("MoveTo", pos.col % (U16Max + 1), pos.row % (U16Max + 1), <<>>)>>]

\* cursor::move_to: the conversion of col and row to u16 fails above u16::MAX
\* and then queues nothing.
move_to(pos) ==
    IF pos.col > U16Max \/ pos.row > U16Max
    THEN [err |-> "TryFromInt", cmds |-> <<>>]
    ELSE [err |-> "None", cmds |-> <<Cmd("MoveTo", pos.col, pos.row, <<>>)>>]

\* "\r\n"
CRLF == <<"\r", "\n">>

\* "Goodbye.\r\n"
Goodbye == <<"G", "o", "o", "d", "b", "y", "e", ".">> \o CRLF

\* env!("CARGO_PKG_NAME")
NAME == <<"h", "e", "c", "t", "o">>

\* env!("CARGO_PKG_VERSION")
VERSION == <<"0", ".", "1", ".", "0">>

\* " ".repeat(n)
RECURSIVE repeat_space(_)
repeat_space(n) == IF n = 0 THEN <<>> ELSE <<" ">> \o repeat_space(n - 1)

\* String::truncate(n)
truncate(s, n) == IF Len(s) > n THEN SubSeq(s, 1, n) ELSE s

----------------------------------------------------------------------------
(* Drawing (editor.rs) *)

\* Editor::draw_welcome_message_row: the text it prints at a given width
draw_welcome_message_row(width) ==
    LET welcome_message == NAME \o <<" ", "e", "d", "i", "t", "o", "r", " ", "-", "-", " ",
                                     "v", "e", "r", "s", "i", "o", "n", " ">> \o VERSION
        len == Len(welcome_message)
        padding == saturating_div(saturating_sub(width, len), 2)
        leading_spaces == repeat_space(saturating_sub(padding, 1))
    IN  truncate(<<"~">> \o leading_spaces \o welcome_message, width)

\* Editor::draw_empty_row: the text it prints
draw_empty_row == <<"~">>

\* One iteration of the loop of Editor::draw_rows
draw_row(row, sz) ==
    <<clear_line>>
    \o <<print(IF row = saturating_div(sz.height, 3)
               THEN draw_welcome_message_row(sz.width)
               ELSE draw_empty_row)>>
    \o (IF saturating_add(row, 1) < sz.height THEN <<print(CRLF)>> ELSE <<>>)

\* Editor::draw_rows: the commands queued for rows `row`..height-1
RECURSIVE draw_rows_from(_, _)
draw_rows_from(row, sz) ==
    IF row >= sz.height THEN <<>> ELSE draw_row(row, sz) \o draw_rows_from(row + 1, sz)

\* Editor::draw_rows
draw_rows(sz) == draw_rows_from(0, sz)

\* A slip in refresh: the cursor is shown before it is moved to the location.
refresh_show_early(sq, loc, sz) ==
    LET head == <<hide>> \o move_to(Origin).cmds
    IN  IF sq
        THEN [err |-> "None",
              cmds |-> head \o <<clear_screen, print(Goodbye), show>>]
        ELSE LET mv == move_to(loc)
             IN  IF mv.err # "None"
                 THEN [err |-> mv.err, cmds |-> head \o draw_rows(sz) \o <<show>>]
                 ELSE [err |-> "None", cmds |-> head \o draw_rows(sz) \o <<show>> \o mv.cmds]

\* Editor::refresh up to its flush: the commands it queues when no write fails,
\* and the error of a cursor::move_to that stops it ("None" when it runs through).
refresh(sq, loc, sz) ==
    LET head == <<hide>> \o move_to(Origin).cmds
    IN  IF sq
        THEN [err |-> "None",
              cmds |-> head \o <<clear_screen, print(Goodbye), show>>]
        ELSE LET mv == move_to(loc)
             IN  IF mv.err # "None"
                 THEN [err |-> mv.err, cmds |-> head \o draw_rows(sz)]
                 ELSE [err |-> "None", cmds |-> head \o draw_rows(sz) \o mv.cmds \o <<show>>]

----------------------------------------------------------------------------
(* Key handling (editor.rs) *)

\* A slip in KeyCode::Up: the row wraps below zero instead of saturating.
key_up_wrapping(row) == IF row = 0 THEN U16Max ELSE row - 1

\* KeyCode::Up
key_up(row) == saturating_sub(row, 1)

\* A slip in KeyCode::Down: clamps to height instead of height - 1.
key_down_off_by_one(row, height) == min(height, saturating_add(row, 1))

\* A slip in KeyCode::Down: a row already beyond the viewport is left alone.
key_down_keeps_outside(row, height) ==
    IF row >= height THEN row ELSE min(saturating_sub(height, 1), saturating_add(row, 1))

\* KeyCode::Down
key_down(row, height) == min(saturating_sub(height, 1), saturating_add(row, 1))

\* KeyCode::Left
key_left(col) == saturating_sub(col, 1)

\* A slip in KeyCode::Right: clamps to width instead of width - 1.
key_right_off_by_one(col, width) == min(width, saturating_add(col, 1))

\* KeyCode::Right
key_right(col, width) == min(saturating_sub(width, 1), saturating_add(col, 1))

\* A slip in KeyCode::PageDown: height - 1 by plain subtraction, which at
\* height 0 wraps to a value far beyond the viewport.
key_page_down_wrapping(height) == IF height = 0 THEN U16Max ELSE height - 1

\* A slip in KeyCode::PageDown: the row becomes height instead of height - 1.
key_page_down_off_by_one(height) == height

\* KeyCode::PageDown
key_page_down(height) == saturating_sub(height, 1)

\* A slip in KeyCode::End: the column becomes width instead of width - 1.
key_end_off_by_one(width) == width

\* KeyCode::End
key_end(width) == saturating_sub(width, 1)

\* Editor::move_cursor once terminal::size() has answered `sz`: the new location
move_cursor(loc, key, sz) ==
    LET col == loc.col
        row == loc.row
        height == sz.height
        width == sz.width
    IN  CASE key = "Up" -> [col |-> col, row |-> key_up(row)]
          [] key = "Down" -> [col |-> col, row |-> key_down(row, height)]
          [] key = "Left" -> [col |-> key_left(col), row |-> row]
          [] key = "Right" -> [col |-> key_right(col, width), row |-> row]
          [] key = "PageUp" -> [col |-> col, row |-> 0]
          [] key = "PageDown" -> [col |-> col, row |-> key_page_down(height)]
          [] key = "Home" -> [col |-> 0, row |-> row]
          [] key = "End" -> [col |-> key_end(width), row |-> row]
          [] OTHER -> [col |-> col, row |-> row]

\* The pattern of handle_event's `if let`: a key event whose kind is Press
is_press(ev) == ev.type = "Key" /\ ev.kind = "Press"

\* Whether handle_event calls move_cursor (and so terminal::size()) for `ev`
calls_move_cursor(ev) == is_press(ev) /\ ev.code \in NavKeys

\* A slip in handle_event: any press of 'q' quits, Control or not.
handle_event_any_q(ev, sq, loc, sz) ==
    IF is_press(ev)
    THEN CASE ev.code = "Char" /\ ev.ch = "q" -> [should_quit |-> TRUE, location |-> loc]
           [] ev.code \in NavKeys ->
                [should_quit |-> sq, location |-> move_cursor(loc, ev.code, sz)]
           [] OTHER -> [should_quit |-> sq, location |-> loc]
    ELSE [should_quit |-> sq, location |-> loc]

\* A slip in handle_event: the modifiers are compared with CONTROL instead of
\* tested for containing it.
handle_event_exact_control(ev, sq, loc, sz) ==
    IF is_press(ev)
    THEN CASE ev.code = "Char" /\ ev.ch = "q" ->
                [should_quit |-> IF ev.modifiers = {"CONTROL"} THEN TRUE ELSE sq,
                 location |-> loc]
           [] ev.code \in NavKeys ->
                [should_quit |-> sq, location |-> move_cursor(loc, ev.code, sz)]
           [] OTHER -> [should_quit |-> sq, location |-> loc]
    ELSE [should_quit |-> sq, location |-> loc]

\* Editor::handle_event when no size query fails: the session after the event
handle_event(ev, sq, loc, sz) ==
    IF is_press(ev)
    THEN CASE ev.code = "Char" /\ ev.ch = "q" ->
                [should_quit |-> IF "CONTROL" \in ev.modifiers THEN TRUE ELSE sq,
                 location |-> loc]
           [] ev.code \in NavKeys ->
                [should_quit |-> sq, location |-> move_cursor(loc, ev.code, sz)]
           [] OTHER -> [should_quit |-> sq, location |-> loc]
    ELSE [should_quit |-> sq, location |-> loc]

\* A slip in repl: the loop does not break once should_quit is set.
repl_next_no_break(sq) == "read"

\* Editor::repl, lines 77-81: where the loop goes after a refresh that succeeded
repl_next(sq) == IF sq THEN "terminate" ELSE "read"

----------------------------------------------------------------------------
(* The program: Editor::run *)

\* How far a run of fallible terminal calls gets. `plan` holds the commands
\* the calls queue when no write fails and the error that stops them by
\* themselves. [n, err]: n commands were queued, then the next call (a write,
\* a size query, or after the last command the flush) failed with err;
\* err = "None": all were queued and flushed.
Outcomes(plan) ==
    {[n |-> k, err |-> "Io"] : k \in 0..(Len(plan.cmds) - 1)}
    \cup (IF plan.err = "None"
          THEN {[n |-> Len(plan.cmds), err |-> "None"], [n |-> Len(plan.cmds), err |-> "Io"]}
          ELSE {[n |-> Len(plan.cmds), err |-> plan.err]})

\* terminal::initialize after enable_raw_mode: clear_screen, move_to(origin)
initialize == [err |-> "None", cmds |-> <<clear_screen>> \o move_to(Origin).cmds]

\* A slip in run: the result of terminal::initialize is dropped.
after_initialize_ignores_error(err) == "refresh"

\* Editor::run, line 67: `terminal::initialize()?` enters repl only on Ok
after_initialize(err) == IF err = "None" THEN "refresh" ELSE "failed"

\* The ways terminal::initialize ends: enable_raw_mode fails, or raw mode is
\* on and the queued commands and the flush get as far as Outcomes says.
initialize_outcomes ==
    {[raw |-> FALSE, n |-> 0, err |-> "Io"]}
    \cup {[raw |-> TRUE, n |-> o.n, err |-> o.err] : o \in Outcomes(initialize)}

\* A slip in terminate: raw mode is disabled before the flush.
terminate_disables_first(raw) ==
    {[cmds |-> <<>>, executed |-> FALSE, raw |-> raw, err |-> "Io"],
     [cmds |-> <<>>, executed |-> FALSE, raw |-> FALSE, err |-> "Io"],
     [cmds |-> <<>>, executed |-> TRUE, raw |-> FALSE, err |-> "None"]}

\* The ways terminal::terminate ends when raw mode is `raw`: execute() fails;
\* execute() succeeds and disable_raw_mode() fails; both succeed. It queues
\* no command of its own (cmds).
terminate(raw) ==
    {[cmds |-> <<>>, executed |-> FALSE, raw |-> raw, err |-> "Io"],
     [cmds |-> <<>>, executed |-> TRUE, raw |-> raw, err |-> "Io"],
     [cmds |-> <<>>, executed |-> TRUE, raw |-> FALSE, err |-> "None"]}

\* No file was asked for.
NoFile == [ok |-> FALSE, contents |-> <<>>]

\* A slip in move_cursor: the location is reset before the size is known.
move_cursor_size_error_resets(loc) == Origin

\* Editor::move_cursor when `terminal::size()?` returns Err: the location it
\* leaves in the session; self.location is assigned only at its end
move_cursor_size_error(loc) == loc

\* Editor::default()
Default == [should_quit |-> FALSE, location |-> Origin]

\* Cap of the history counter downRun.
DownCap == MaxDim + 5

\* Cap of the history counters quitRefreshes and quitReads.
QuitCap == 2

Init ==
    /\ should_quit = Default.should_quit
    /\ location = Default.location
    /\ size \in Sizes
    /\ rawMode = FALSE
    /\ queue = <<>>
    /\ flushed = <<>>
    /\ pc = "initialize"
    /\ event = NoEvent
    /\ result = "Running"
    /\ before = Default
    /\ resized = FALSE
    /\ downRun = 0
    /\ quitRefreshes = 0
    /\ quitReads = 0
    /\ started = FALSE
    /\ entered = FALSE
    /\ buffer = <<>>
    /\ file = NoFile
    /\ oldBuffer = <<>>
    /\ issued = 0
    /\ device = <<>>

\* A slip in repl: the error is dropped and the loop goes on to its next cycle.
Fail_swallowed(err) ==
    /\ pc' = "refresh"
    /\ result' = result

\* Editor::run returns Err(err): the `?` of run and repl, no teardown runs
Fail(err) ==
    /\ pc' = "failed"
    /\ result' = err

\* terminal::initialize, called by Editor::run
Initialize ==
    /\ pc = "initialize"
    /\ \E o \in initialize_outcomes :
         /\ rawMode' = o.raw
         /\ IF o.err = "None"
            THEN /\ flushed' = queue \o initialize.cmds
                 /\ queue' = <<>>
            ELSE /\ queue' = queue \o SubSeq(initialize.cmds, 1, o.n)
                 /\ UNCHANGED flushed
         /\ pc' = after_initialize(o.err)
         /\ result' = IF after_initialize(o.err) = "failed" THEN o.err ELSE result
         /\ started' = (o.err = "None")
    /\ UNCHANGED <<should_quit, location, size, event, before, resized, downRun,
                   quitRefreshes, quitReads, entered>>
    /\ UNCHANGED unitVars

\* Editor::refresh, called at the top of the loop of Editor::repl, and the
\* `if self.should_quit { break }` after it
Refresh ==
    /\ pc = "refresh"
    /\ LET plan == refresh(should_quit, location, size)
       IN  \E o \in Outcomes(plan) :
             IF o.err = "None"
             THEN /\ flushed' = queue \o plan.cmds
                  /\ queue' = <<>>
                  /\ pc' = repl_next(should_quit)
                  /\ quitRefreshes' =
                        IF should_quit THEN min(quitRefreshes + 1, QuitCap) ELSE quitRefreshes
                  /\ UNCHANGED result
             ELSE /\ queue' = queue \o SubSeq(plan.cmds, 1, o.n)
                  /\ Fail(o.err)
                  /\ UNCHANGED <<flushed, quitRefreshes>>
    /\ entered' = TRUE
    /\ UNCHANGED <<should_quit, location, size, rawMode, event, before, resized, downRun,
                   quitReads, started>>
    /\ UNCHANGED unitVars

\* crossterm::event::read() in Editor::repl
ReadEvent ==
    /\ pc = "read"
    /\ \/ \E e \in Events :
            /\ event' = e
            /\ pc' = "handle"
            /\ quitReads' = IF should_quit THEN min(quitReads + 1, QuitCap) ELSE quitReads
            /\ UNCHANGED result
       \/ /\ Fail("Io")
          /\ UNCHANGED <<event, quitReads>>
    /\ entered' = TRUE
    /\ UNCHANGED <<should_quit, location, size, rawMode, queue, flushed, before, resized,
                   downRun, quitRefreshes, started>>
    /\ UNCHANGED unitVars

\* Editor::handle_event on the event just read
HandleEvent ==
    /\ pc = "handle"
    /\ \/ LET ed == handle_event(event, should_quit, location, size)
          IN  /\ should_quit' = ed.should_quit
              /\ location' = ed.location
              /\ pc' = "handled"
              /\ before' = [should_quit |-> should_quit, location |-> location]
              /\ downRun' = IF is_press(event) /\ event.code = "Down"
                            THEN min(downRun + 1, DownCap)
                            ELSE 0
              /\ UNCHANGED result
       \/ /\ calls_move_cursor(event)   \* terminal::size() failed in move_cursor
          /\ Fail("Io")
          /\ location' = move_cursor_size_error(location)
          /\ UNCHANGED <<should_quit, before, downRun>>
    /\ UNCHANGED <<size, rawMode, queue, flushed, event, resized, quitRefreshes, quitReads,
                   started, entered>>
    /\ UNCHANGED unitVars

\* The end of the loop body of Editor::repl: `event` goes out of scope
LoopBack ==
    /\ pc = "handled"
    /\ pc' = "refresh"
    /\ event' = NoEvent
    /\ before' = Default
    /\ UNCHANGED <<should_quit, location, size, rawMode, queue, flushed, result, resized,
                   downRun, quitRefreshes, quitReads, started, entered>>
    /\ UNCHANGED unitVars

\* terminal::terminate, called by Editor::run after repl returned Ok; its
\* result is the result of run
Terminate ==
    /\ pc = "terminate"
    /\ \E o \in terminate(rawMode) :
         /\ rawMode' = o.raw
         /\ IF o.executed
            THEN /\ flushed' = IF queue \o o.cmds = <<>> THEN flushed ELSE queue \o o.cmds
                 /\ queue' = <<>>
            ELSE /\ queue' = queue \o o.cmds
                 /\ UNCHANGED flushed
         /\ IF o.err = "None"
            THEN /\ pc' = "done"
                 /\ result' = "Ok"
            ELSE Fail(o.err)
    /\ UNCHANGED <<should_quit, location, size, event, before, resized, downRun,
                   quitRefreshes, quitReads, started, entered>>
    /\ UNCHANGED unitVars

\* The device changes its size between two queries of the program.
Resize ==
    /\ pc \in {"refresh", "read"}
    /\ \E s \in Sizes \ {size} : size' = s
    /\ resized' = TRUE
    /\ downRun' = 0
    /\ UNCHANGED <<should_quit, location, rawMode, queue, flushed, pc, event, result,
                   before, quitRefreshes, quitReads, started, entered>>
    /\ UNCHANGED unitVars

Next ==
    \/ Initialize
    \/ Refresh
    \/ ReadEvent
    \/ HandleEvent
    \/ LoopBack
    \/ Terminate
    \/ Resize

Spec == Init /\ [][Next]_vars

\* The program runs on: a refresh, a handle_event and the end of the loop body
\* that can be executed are executed. The input read may block for ever and
\* the device need not change its size, so neither is required to happen.
FairSpec ==
    /\ Spec
    /\ WF_vars(Refresh)
    /\ WF_vars(HandleEvent)
    /\ WF_vars(LoopBack)

----------------------------------------------------------------------------
(* One pass of handle_event at the edge of the device's coordinates: the    *)
(* session is at any Location of EdgeLocations, the device reports any size *)
(* of EdgeSizes, and any event was read.                                     *)

\* Viewport dimensions crossterm can report (u16), small and at the top
EdgeDims == {0, 1, 2, U16Max - 1, U16Max}

\* terminal::size at the edge
EdgeSizes == [width : EdgeDims, height : EdgeDims]

\* Coordinates of a Location that move_cursor can have produced from sizes
\* of at most u16::MAX
EdgeCoords == {0, 1, 2, U16Max - 2, U16Max - 1}

\* Locations at the edge
EdgeLocations == [col : EdgeCoords, row : EdgeCoords]

EdgeInit ==
    /\ should_quit = FALSE
    /\ location \in EdgeLocations
    /\ size \in EdgeSizes
    /\ rawMode = TRUE
    /\ queue = <<>>
    /\ flushed = <<>>
    /\ pc = "handle"
    /\ event \in Events
    /\ result = "Running"
    /\ before = Default
    /\ resized = FALSE
    /\ downRun = 0
    /\ quitRefreshes = 0
    /\ quitReads = 0
    /\ started = TRUE
    /\ entered = TRUE
    /\ buffer = <<>>
    /\ file = NoFile
    /\ oldBuffer = <<>>
    /\ issued = 0
    /\ device = <<>>

EdgeNext ==
    \/ HandleEvent
    \/ LoopBack

EdgeSpec == EdgeInit /\ [][EdgeNext]_vars

----------------------------------------------------------------------------
(* The document and its rendering (buffer.rs, viewer.rs) *)

\* A trailing "\r" is dropped from a line that "\n" ended (str::lines)
strip_cr(l) == IF l # <<>> /\ l[Len(l)] = "\r" THEN SubSeq(l, 1, Len(l) - 1) ELSE l

\* str::lines: lines end at "\n" or "\r\n"; a last line without a line ending
\* is kept as it is, an empty one is dropped. `cur` is the line read so far.
RECURSIVE lines_from(_, _)
lines_from(s, cur) ==
    IF s = <<>>
    THEN IF cur = <<>> THEN <<>> ELSE <<cur>>
    ELSE IF Head(s) = "\n"
         THEN <<strip_cr(cur)>> \o lines_from(Tail(s), <<>>)
         ELSE lines_from(Tail(s), Append(cur, Head(s)))

\* file_contents.lines().map(str::to_string).collect()
lines(s) == lines_from(s, <<>>)

\* Buffer::load: the `?` on fs::read_to_string returns its error
buffer_load(f) ==
    IF f.ok
    THEN [err |-> "None", lines |-> lines(f.contents)]
    ELSE [err |-> "Io", lines |-> <<>>]

\* Buffer::is_empty
is_empty(buf) == buf = <<>>

\* Buffer::get(index): the line, or None
get(buf, index) ==
    IF index < Len(buf) THEN [some |-> TRUE, line |-> buf[index + 1]]
    ELSE [some |-> FALSE, line |-> <<>>]

\* A slip in load: a failed load leaves an empty document.
view_load_clobbers(buf, f) ==
    LET loaded == buffer_load(f)
    IN  IF loaded.err = "None" THEN loaded.lines ELSE <<>>

\* View::load: the document after it; an Err of Buffer::load is dropped
view_load(buf, f) ==
    LET loaded == buffer_load(f)
    IN  IF loaded.err = "None" THEN loaded.lines ELSE buf

\* A slip in the banner row: the "~" is not taken off the padding.
render_welcome_row_full_padding(width) ==
    LET welcome_message == NAME \o <<" ", "e", "d", "i", "t", "o", "r", " ", "-", "-", " ",
                                     "v", "e", "r", "s", "i", "o", "n", " ">> \o VERSION
        len == Len(welcome_message)
        padding == saturating_div(saturating_sub(width, len), 2)
        leading_spaces == repeat_space(padding)
    IN  truncate(<<"~">> \o leading_spaces \o welcome_message, width)

\* render_welcome_row (viewer.rs): the text it prints at a given width
render_welcome_row(width) ==
    LET welcome_message == NAME \o <<" ", "e", "d", "i", "t", "o", "r", " ", "-", "-", " ",
                                     "v", "e", "r", "s", "i", "o", "n", " ">> \o VERSION
        len == Len(welcome_message)
        padding == saturating_div(saturating_sub(width, len), 2)
        leading_spaces == repeat_space(saturating_sub(padding, 1))
    IN  truncate(<<"~">> \o leading_spaces \o welcome_message, width)

\* render_empty_row (viewer.rs): the text it prints
render_empty_row == <<"~">>

\* View::render_welcome: the commands queued for rows `row`..height-1
RECURSIVE render_welcome_from(_, _)
render_welcome_from(row, sz) ==
    IF row >= sz.height THEN <<>>
    ELSE <<clear_line>>
         \o <<print(IF row = saturating_div(sz.height, 3)
                    THEN render_welcome_row(sz.width)
                    ELSE render_empty_row)>>
         \o (IF saturating_add(row, 1) < sz.height THEN <<print(CRLF)>> ELSE <<>>)
         \o render_welcome_from(row + 1, sz)

\* A slip in render_welcome: a line break follows the last row too.
render_welcome_trailing_break(sz) == render_welcome_from(0, sz) \o <<print(CRLF)>>

\* View::render_welcome
render_welcome(sz) == render_welcome_from(0, sz)

\* A slip in render_buffer: the line break follows every row.
RECURSIVE render_buffer_trailing_break(_, _, _)
render_buffer_trailing_break(buf, row, sz) ==
    IF row >= sz.height THEN <<>>
    ELSE <<clear_line>>
         \o <<print(IF get(buf, row).some THEN get(buf, row).line ELSE render_empty_row)>>
         \o <<print(CRLF)>>
         \o render_buffer_trailing_break(buf, row + 1, sz)

\* View::render_buffer: the commands queued for rows `row`..height-1
RECURSIVE render_buffer(_, _, _)
render_buffer(buf, row, sz) ==
    IF row >= sz.height THEN <<>>
    ELSE <<clear_line>>
         \o <<print(IF get(buf, row).some THEN get(buf, row).line ELSE render_empty_row)>>
         \o (IF saturating_add(row, 1) < sz.height THEN <<print(CRLF)>> ELSE <<>>)
         \o render_buffer(buf, row + 1, sz)

\* A slip in render: a screen that was drawn is not drawn again.
render_only_once(buf, sz) ==
    IF queue # <<>> THEN <<>>
    ELSE IF is_empty(buf) THEN render_welcome(sz) ELSE render_buffer(buf, 0, sz)

\* View::render: the commands it queues
render(buf, sz) ==
    IF is_empty(buf) THEN render_welcome(sz) ELSE render_buffer(buf, 0, sz)

----------------------------------------------------------------------------
(* The units driven on their own, as the crate's tests drive them: out() is  *)
(* the in-memory sink, whose writes never fail, and the size query answers   *)
(* `size`.  pc = "unit" before the call; afterwards pc names the call made,  *)
(* queue holds what it wrote and result what it returned.                    *)

MaxWidth == 34

MaxHeight == 5

MaxLines == 2

MaxFileLen == 3

\* Sequences over S of length at most n
SeqsUpTo(S, n) == UNION {[1..k -> S] : k \in 0..n}

\* Sizes a terminal may report, wide enough for the whole banner row
UnitSizes == [width : 0..MaxWidth, height : 0..MaxHeight]

\* Documents a View may hold: lines without line endings
Documents == SeqsUpTo({<<>>, <<"a">>, <<"b">>}, MaxLines)

\* What fs::read_to_string may answer: an error, or the text of the file
Files == {NoFile} \cup {[ok |-> TRUE, contents |-> c] : c \in SeqsUpTo({"a", "\r", "\n"}, MaxFileLen)}

\* Coordinates handed to cursor::move_to, on both sides of u16::MAX
Coords == {0, 5, 10, U16Max, U16Max + 1, 70000}

UnitInit ==
    /\ should_quit = Default.should_quit
    /\ location = Default.location
    /\ size \in UnitSizes
    /\ buffer \in Documents
    /\ rawMode = FALSE
    /\ queue = <<>>
    /\ flushed = <<>>
    /\ pc = "unit"
    /\ event = NoEvent
    /\ result = "Running"
    /\ before = Default
    /\ resized = FALSE
    /\ downRun = 0
    /\ quitRefreshes = 0
    /\ quitReads = 0
    /\ started = FALSE
    /\ entered = FALSE
    /\ file = NoFile
    /\ oldBuffer = <<>>
    /\ issued = 0
    /\ device = <<>>

\* cursor::move_to(pos); location records pos
UnitMoveTo ==
    /\ pc = "unit"
    /\ \E pos \in [col : Coords, row : Coords] :
         /\ location' = pos
         /\ queue' = queue \o move_to(pos).cmds
         /\ result' = IF move_to(pos).err = "None" THEN "Ok" ELSE move_to(pos).err
    /\ pc' = "moved"
    /\ UNCHANGED <<should_quit, size, rawMode, flushed, event, before, resized, downRun,
                   quitRefreshes, quitReads, started, entered>>
    /\ UNCHANGED unitVars

\* View::render
UnitRender ==
    /\ pc = "unit"
    /\ queue' = queue \o render(buffer, size)
    /\ result' = "Ok"
    /\ pc' = "rendered"
    /\ UNCHANGED <<should_quit, location, size, rawMode, flushed, event, before, resized,
                   downRun, quitRefreshes, quitReads, started, entered>>
    /\ UNCHANGED unitVars

\* render_welcome_row (viewer.rs)
UnitWelcomeRow ==
    /\ pc = "unit"
    /\ queue' = queue \o <<print(render_welcome_row(size.width))>>
    /\ result' = "Ok"
    /\ pc' = "welcome"
    /\ UNCHANGED <<should_quit, location, size, rawMode, flushed, event, before, resized,
                   downRun, quitRefreshes, quitReads, started, entered>>
    /\ UNCHANGED unitVars

\* View::load(file_name); file is what reading file_name answers
UnitLoad ==
    /\ pc = "unit"
    /\ \E f \in Files :
         /\ file' = f
         /\ buffer' = view_load(buffer, f)
    /\ oldBuffer' = buffer
    /\ result' = "Ok"
    /\ pc' = "loaded"
    /\ UNCHANGED <<should_quit, location, size, rawMode, queue, flushed, event, before,
                   resized, downRun, quitRefreshes, quitReads, started, entered, issued,
                   device>>

\* Editor::refresh of Editor::default(). The editor holds no View: `buffer`
\* is the document of a View beside it, which refresh never reads.
UnitRefresh ==
    /\ pc = "unit"
    /\ flushed' = queue \o refresh(should_quit, location, size).cmds
    /\ queue' = <<>>
    /\ result' = "Ok"
    /\ pc' = "refreshed"
    /\ UNCHANGED <<should_quit, location, size, rawMode, event, before, resized, downRun,
                   quitRefreshes, quitReads, started, entered>>
    /\ UNCHANGED unitVars

UnitNext ==
    \/ UnitMoveTo
    \/ UnitRender
    \/ UnitWelcomeRow
    \/ UnitLoad
    \/ UnitRefresh

UnitSpec == UnitInit /\ [][UnitNext]_vars

----------------------------------------------------------------------------
(* One redraw cycle call by call, on the sink of the program: out() is      *)
(* std::io::stdout(), a line-buffered writer.  queue is what the writer      *)
(* holds, device what it has transmitted since the cycle began, issued the  *)
(* number of terminal calls of Editor::refresh that have returned.          *)

\* The last index of "\n" in text, 0 when there is none
last_newline(text) ==
    IF \E k \in 1..Len(text) : text[k] = "\n"
    THEN CHOOSE k \in 1..Len(text) :
            text[k] = "\n" /\ \A j \in (k + 1)..Len(text) : text[j] # "\n"
    ELSE 0

\* A write of command c to Stdout holding `held`: bytes without "\n" are
\* kept; a text with "\n" sends what is held and the text up to its last
\* "\n", and keeps the rest of the text.
line_writer(held, c) ==
    LET n == last_newline(c.text)
    IN  IF n = 0
        THEN [sent |-> <<>>, held |-> held \o <<c>>]
        ELSE [sent |-> held \o <<print(SubSeq(c.text, 1, n))>>,
              held |-> IF n < Len(c.text)
                       THEN <<print(SubSeq(c.text, n + 1, Len(c.text)))>>
                       ELSE <<>>]

\* Where Editor::move_cursor leaves the location at sizes of Sizes
Locations == [col : 0..MaxDim, row : 0..MaxDim]

CycleInit ==
    /\ should_quit \in BOOLEAN
    /\ location \in Locations
    /\ size \in Sizes
    /\ rawMode = TRUE
    /\ queue = <<>>
    /\ flushed = <<>>
    /\ pc = "cycle"
    /\ event = NoEvent
    /\ result = "Running"
    /\ before = Default
    /\ resized = FALSE
    /\ downRun = 0
    /\ quitRefreshes = 0
    /\ quitReads = 0
    /\ started = TRUE
    /\ entered = TRUE
    /\ buffer = <<>>
    /\ file = NoFile
    /\ oldBuffer = <<>>
    /\ issued = 0
    /\ device = <<>>

\* The next terminal call of Editor::refresh writes its command to out()
CycleWrite ==
    /\ pc = "cycle"
    /\ issued < Len(refresh(should_quit, location, size).cmds)
    /\ LET w == line_writer(queue, refresh(should_quit, location, size).cmds[issued + 1])
       IN  /\ queue' = w.held
           /\ device' = device \o w.sent
    /\ issued' = issued + 1
    /\ UNCHANGED <<should_quit, location, size, rawMode, flushed, pc, event, result, before,
                   resized, downRun, quitRefreshes, quitReads, started, entered, buffer,
                   file, oldBuffer>>

\* terminal::execute at the end of Editor::refresh: out().flush()
CycleExecute ==
    /\ pc = "cycle"
    /\ issued = Len(refresh(should_quit, location, size).cmds)
    /\ device' = device \o queue
    /\ flushed' = device \o queue
    /\ queue' = <<>>
    /\ pc' = "flushed"
    /\ result' = "Ok"
    /\ UNCHANGED <<should_quit, location, size, rawMode, event, before, resized, downRun,
                   quitRefreshes, quitReads, started, entered, buffer, file, oldBuffer,
                   issued>>

\* The next terminal call, or the flush, fails: refresh returns the error
CycleFail ==
    /\ pc = "cycle"
    /\ Fail("Io")
    /\ UNCHANGED <<should_quit, location, size, rawMode, queue, flushed, event, before,
                   resized, downRun, quitRefreshes, quitReads, started, entered>>
    /\ UNCHANGED unitVars

CycleNext ==
    \/ CycleWrite
    \/ CycleExecute
    \/ CycleFail

CycleSpec == CycleInit /\ [][CycleNext]_vars

----------------------------------------------------------------------------
(* Drawing beside a session: Editor::refresh of any editor and View::render *)
(* of any document, and View::render called a second time.                   *)

DrawInit ==
    /\ should_quit \in BOOLEAN
    /\ location \in Locations
    /\ size \in Sizes
    /\ buffer \in Documents
    /\ rawMode = FALSE
    /\ queue = <<>>
    /\ flushed = <<>>
    /\ pc = "unit"
    /\ event = NoEvent
    /\ result = "Running"
    /\ before = Default
    /\ resized = FALSE
    /\ downRun = 0
    /\ quitRefreshes = 0
    /\ quitReads = 0
    /\ started = FALSE
    /\ entered = FALSE
    /\ file = NoFile
    /\ oldBuffer = <<>>
    /\ issued = 0
    /\ device = <<>>

\* View::render called again on the same View at the same size; issued
\* records how many commands the first call had queued
RenderAgain ==
    /\ pc = "rendered"
    /\ queue' = queue \o render(buffer, size)
    /\ issued' = Len(queue)
    /\ result' = "Ok"
    /\ pc' = "rendered twice"
    /\ UNCHANGED <<should_quit, location, size, rawMode, flushed, event, before, resized,
                   downRun, quitRefreshes, quitReads, started, entered, buffer, file,
                   oldBuffer, device>>

DrawNext ==
    \/ UnitRender
    \/ UnitRefresh
    \/ RenderAgain

DrawSpec == DrawInit /\ [][DrawNext]_vars

----------------------------------------------------------------------------
(* The calls at small viewports, empty ones included: handle_event of any   *)
(* event from any small Location, and the drawing calls of any document.    *)

CornerInit ==
    /\ should_quit = FALSE
    /\ location \in Locations
    /\ size \in Sizes
    /\ \/ /\ pc = "unit"
          /\ event = NoEvent
          /\ buffer \in Documents
       \/ /\ pc = "handle"
          /\ event \in Events
          /\ buffer = <<>>
    /\ rawMode = FALSE
    /\ queue = <<>>
    /\ flushed = <<>>
    /\ result = "Running"
    /\ before = Default
    /\ resized = FALSE
    /\ downRun = 0
    /\ quitRefreshes = 0
    /\ quitReads = 0
    /\ started = FALSE
    /\ entered = FALSE
    /\ file = NoFile
    /\ oldBuffer = <<>>
    /\ issued = 0
    /\ device = <<>>

CornerNext ==
    \/ HandleEvent
    \/ LoopBack
    \/ UnitRender
    \/ UnitWelcomeRow
    \/ UnitRefresh

CornerSpec == CornerInit /\ [][CornerNext]_vars

----------------------------------------------------------------------------
(* Properties.  In a state with pc = "handled", handle_event has just        *)
(* returned Ok for `event`: `before` is the session it started from and     *)
(* `size` the size its size query (if any) was answered with.               *)

\* A press of key `code`.
PressOf(code) == event.type = "Key" /\ event.kind = "Press" /\ event.code = code

\* A press of 'q' with the Control modifier held.
QuitPress ==
    /\ event.type = "Key"
    /\ event.kind = "Press"
    /\ event.code = "Char"
    /\ event.ch = "q"
    /\ "CONTROL" \in event.modifiers

\* A press of one of the eight navigation keys.
NavPress ==
    \/ PressOf("Up") \/ PressOf("Down") \/ PressOf("Left") \/ PressOf("Right")
    \/ PressOf("Home") \/ PressOf("End") \/ PressOf("PageUp") \/ PressOf("PageDown")

Max(a, b) == IF a >= b THEN a ELSE b

Min(a, b) == IF a <= b THEN a ELSE b

\* C1: handle_event leaves Location and should_quit unchanged for every event
\* that is neither a press of a navigation key nor a press of Ctrl+Q: other
\* key codes (a plain 'q' included), non-key events, release and repeat kinds.
C1_IgnoredEventsChangeNothing ==
    (pc = "handled" /\ ~NavPress /\ ~QuitPress)
        => (location = before.location /\ should_quit = before.should_quit)

\* C1 witness: a plain 'q' press was handled away from the origin and changed nothing.
C1_Witness ==
    /\ pc = "handled"
    /\ event = KeyEvent("Char", "q", {}, "Press")
    /\ location # Origin
    /\ location = before.location
    /\ ~should_quit

\* C2: at a constant size with height, width >= 1, from the first Down on the
\* row never exceeds height-1, and after height+5 Downs in a row it is height-1.
C2_DownSaturates ==
    (size.height >= 1 /\ size.width >= 1)
        => /\ downRun >= 1 => location.row <= size.height - 1
           /\ downRun >= size.height + 5 => location.row = size.height - 1

\* C2 witness: height+5 Downs in a row were handled in a viewport of several rows.
C2_Witness ==
    /\ pc = "handled"
    /\ size.height >= 2
    /\ size.width >= 1
    /\ downRun = size.height + 5
    /\ location.row = size.height - 1

\* C3: Up yields row = max(row-1, 0) with col unchanged, Left yields
\* col = max(col-1, 0) with row unchanged; neither wraps to a large value.
C3_UpLeftSaturateAtZero ==
    /\ (pc = "handled" /\ PressOf("Up"))
          => /\ location.row = Max(before.location.row - 1, 0)
             /\ location.row <= before.location.row
             /\ location.col = before.location.col
    /\ (pc = "handled" /\ PressOf("Left"))
          => /\ location.col = Max(before.location.col - 1, 0)
             /\ location.col <= before.location.col
             /\ location.row = before.location.row

\* C3 witness: Up was handled at row 0 (away from column 0) and the row stayed 0.
C3_Witness ==
    /\ pc = "handled"
    /\ PressOf("Up")
    /\ before.location.row = 0
    /\ before.location.col > 0
    /\ location = before.location

\* C4: PageUp yields row 0, PageDown yields row height-1 (height >= 1) for the
\* size queried at that transition, whatever the prior row; col is unchanged.
C4_PageKeys ==
    /\ (pc = "handled" /\ PressOf("PageUp"))
          => (location.row = 0 /\ location.col = before.location.col)
    /\ (pc = "handled" /\ PressOf("PageDown") /\ size.height >= 1)
          => (location.row = size.height - 1 /\ location.col = before.location.col)

\* C4 witness: PageDown was handled from a row below the (shrunken) viewport.
C4_Witness ==
    /\ pc = "handled"
    /\ PressOf("PageDown")
    /\ size.height >= 1
    /\ before.location.row > size.height - 1
    /\ before.location.col > 0
    /\ location.row = size.height - 1

\* C5: for height, width >= 1, Down yields row = min(row+1, height-1), Right
\* yields col = min(col+1, width-1), Home yields col 0, End yields col width-1,
\* each leaving the other coordinate unchanged; Down from the origin with
\* height >= 2 yields (col 0, row 1).
C5_ForwardAndColumnJumpKeys ==
    (pc = "handled" /\ size.height >= 1 /\ size.width >= 1)
        => /\ PressOf("Down")
                => /\ location.row = Min(before.location.row + 1, size.height - 1)
                   /\ location.col = before.location.col
           /\ PressOf("Right")
                => /\ location.col = Min(before.location.col + 1, size.width - 1)
                   /\ location.row = before.location.row
           /\ PressOf("Home")
                => (location.col = 0 /\ location.row = before.location.row)
           /\ PressOf("End")
                => (location.col = size.width - 1 /\ location.row = before.location.row)
           /\ (PressOf("Down") /\ before.location = Origin /\ size.height >= 2)
                => location = [col |-> 0, row |-> 1]

\* C5 witness: Down was handled at the origin and moved to (col 0, row 1).
C5_Witness ==
    /\ pc = "handled"
    /\ PressOf("Down")
    /\ before.location = Origin
    /\ location = [col |-> 0, row |-> 1]

C7_LocationWithinConstantViewport ==
    (~resized /\ size.height >= 1 /\ size.width >= 1)
        => /\ 0 <= location.row /\ location.row <= size.height - 1
           /\ 0 <= location.col /\ location.col <= size.width - 1

\* C7 witness: without any resize the cursor was moved to the far corner of a
\* viewport of several rows and columns.
C7_Witness ==
    /\ ~resized
    /\ pc = "handled"
    /\ size.height >= 2
    /\ size.width >= 2
    /\ location = [col |-> size.width - 1, row |-> size.height - 1]

\* C8: should_quit is false in the default Editor, is true after a press of 'q'
\* with Control (which leaves the Location unchanged), and once true is never
\* set back to false by a later event or refresh.
C8_QuitFlag ==
    /\ should_quit = FALSE
    /\ []((pc = "handled" /\ QuitPress) => (should_quit /\ location = before.location))
    /\ [][should_quit => should_quit']_vars

\* C8 witness: Ctrl+Q (with Shift also held) was pressed away from the origin and
\* set the flag.
C8_Witness ==
    /\ pc = "handled"
    /\ event = KeyEvent("Char", "q", {"CONTROL", "SHIFT"}, "Press")
    /\ ~before.should_quit
    /\ should_quit
    /\ location # Origin

\* The places of `cmds` that hold a command of kind `op`.
Places(cmds, op) == {i \in 1..Len(cmds) : cmds[i].op = op}

\* C9: once the quit combination was observed the loop performs exactly one
\* more refresh cycle, reads no further input event and exits; that cycle
\* clears the screen and prints "Goodbye." exactly once, draws no rows and moves
\* the cursor only to the origin, not to the current Location.
C9_OneFinalCycle ==
    /\ should_quit => (quitReads = 0 /\ quitRefreshes <= 1 /\ pc \notin {"read", "handle"})
    /\ pc \in {"terminate", "done"}
         => /\ should_quit
            /\ quitRefreshes = 1
            /\ Cardinality(Places(flushed, "ClearAll")) = 1
            /\ Cardinality(Places(flushed, "Print")) = 1
            /\ \A i \in Places(flushed, "Print") : flushed[i].text = Goodbye
            /\ Places(flushed, "ClearLine") = {}
            /\ Cardinality(Places(flushed, "MoveTo")) = 1
            /\ \A i \in Places(flushed, "MoveTo") :
                  /\ flushed[i].col = 0 /\ flushed[i].row = 0
                  /\ \A j \in Places(flushed, "ClearAll") : i < j
            /\ \A i \in Places(flushed, "ClearAll") :
                  \A j \in Places(flushed, "Print") : i < j

\* C9 witness: the loop has exited after Ctrl+Q was pressed away from the origin.
C9_Witness ==
    /\ pc = "done"
    /\ should_quit
    /\ quitRefreshes = 1
    /\ location.row > 0
    /\ location.col > 0

\* C10: a Running refresh cycle queues hide first, then a move to the origin,
\* then only row drawing (line clears and prints), then a move to the current
\* Location, then show, and flushes last, leaving nothing queued.
C10_RunningFrameOrder ==
    pc = "read"
        => LET n == Len(flushed)
           IN  /\ n >= 4
               /\ flushed[1] = Cmd("Hide", 0, 0, <<>>)
               /\ flushed[2] = Cmd("MoveTo", 0, 0, <<>>)
               /\ \A i \in 3..(n - 2) : flushed[i].op \in {"ClearLine", "Print"}
               /\ flushed[n - 1] = Cmd("MoveTo", location.col, location.row, <<>>)
               /\ flushed[n] = Cmd("Show", 0, 0, <<>>)
               /\ queue = <<>>

\* C10 witness: a frame with rows was flushed while the cursor was away from the
\* origin.
C10_Witness ==
    /\ pc = "read"
    /\ location.row > 0
    /\ location.col > 0
    /\ Len(flushed) > 6

----------------------------------------------------------------------------
(* Startup and shutdown of Editor::run (Spec).  run has returned in a state *)
(* with pc = "done" or pc = "failed"; it failed inside terminal::terminate  *)
(* exactly when pc = "failed" after a quitting cycle was drawn.              *)

\* C16: when run returns, raw mode is off: after a clean quit, and also when
\* a startup step failed after raw mode was enabled or the loop ended early
\* on an error of refresh, of the input read or of handle_event.  (A run that
\* fails inside the release itself is left aside.)
C16_Original ==
    (pc = "done" \/ (pc = "failed" /\ quitRefreshes = 0)) => ~rawMode

\* What terminal::initialize queues, as its source lists it.
StartupCommands ==
    <<[op |-> "ClearAll", col |-> 0, row |-> 0, text |-> <<>>],
      [op |-> "MoveTo", col |-> 0, row |-> 0, text |-> <<>>]>>

\* C17: startup enables raw mode, queues the screen clear, queues the move to
\* (0,0) and flushes, in this order: when the loop is about to be entered
\* raw mode is on and exactly these two commands were flushed; when a step
\* failed, run has returned that error with the loop never entered (no
\* refresh ran, no event was read), nothing flushed, only a prefix of the two
\* commands queued, and nothing queued unless raw mode was enabled.
C17_StartupOrder ==
    /\ entered => started
    /\ (pc = "refresh" /\ ~entered) =>
          /\ started
          /\ rawMode
          /\ flushed = StartupCommands
          /\ queue = <<>>
    /\ (pc # "initialize" /\ ~started) =>
          /\ pc = "failed"
          /\ result \in {"Io", "TryFromInt"}
          /\ ~entered
          /\ event = NoEvent
          /\ flushed = <<>>
          /\ \E n \in 0..2 : queue = SubSeq(StartupCommands, 1, n)
          /\ ~rawMode => queue = <<>>

C17_Witness ==
    /\ pc = "failed"
    /\ ~started
    /\ ~entered
    /\ rawMode
    /\ queue = SubSeq(StartupCommands, 1, 1)
    /\ result = "Io"

\* C18: shutdown after a clean quit flushes and then disables raw mode and
\* queues nothing of its own: when run returns Ok raw mode is off, nothing is
\* left queued and the last frame flushed is still the quitting frame of
\* refresh; when the flush or the disabling fails, run returns that error,
\* with raw mode still on (the flush comes first, and its failure ends the
\* shutdown) and again nothing added to the sink.
C18_ShutdownOrder ==
    /\ pc = "done" =>
          /\ result = "Ok"
          /\ quitRefreshes >= 1
          /\ ~rawMode
          /\ queue = <<>>
          /\ flushed = refresh(TRUE, location, size).cmds
    /\ (pc = "failed" /\ quitRefreshes >= 1) =>
          /\ result = "Io"
          /\ rawMode
          /\ queue = <<>>
          /\ flushed = refresh(TRUE, location, size).cmds

C18_Witness ==
    /\ pc = "done"
    /\ result = "Ok"
    /\ ~rawMode
    /\ started
    /\ flushed[Len(flushed)].op = "Show"
    /\ queue = <<>>

\* C21: a failure inside the loop is propagated and never retried or
\* swallowed. A refresh either flushes its whole frame and goes on, or run
\* returns its error with nothing flushed; the input read either delivers an
\* event or run returns its io error; handle_event either returns Ok or run
\* returns the error of the size query. Once run has returned an error
\* nothing happens any more: no refresh, no read, no second attempt.
C21_FailuresPropagate ==
    /\ [](pc = "failed" <=> result \in {"Io", "TryFromInt"})
    /\ [][/\ pc # "failed"
          /\ (pc = "refresh" /\ size' = size) =>
                \/ /\ flushed' = queue \o refresh(should_quit, location, size).cmds
                   /\ queue' = <<>>
                   /\ pc' \in {"read", "terminate"}
                   /\ result' = result
                \/ /\ pc' = "failed"
                   /\ result' \in {"Io", "TryFromInt"}
                   /\ flushed' = flushed
          /\ (pc = "read" /\ size' = size) =>
                \/ /\ event' \in Events
                   /\ pc' = "handle"
                   /\ result' = result
                \/ /\ pc' = "failed"
                   /\ result' = "Io"
                   /\ event' = event
          /\ pc = "handle" =>
                \/ /\ pc' = "handled"
                   /\ result' = result
                \/ /\ pc' = "failed"
                   /\ result' = "Io"
                   /\ should_quit' = should_quit
                   /\ location' = location]_vars

\* C21 witness: a refresh failed after queueing part of its frame, and run
\* returned the error.
C21_Witness ==
    /\ pc = "failed"
    /\ result = "Io"
    /\ entered
    /\ quitRefreshes = 0
    /\ queue # <<>>
    /\ event = NoEvent

\* C22: only the quit key ends the loop. repl returns Ok only by the break
\* after a refresh with should_quit set, should_quit is set only by handling
\* a press of Ctrl+Q that was read, and after such a press was delivered to
\* handle_event the loop does exit, unless an operation fails and run returns
\* its error.
C22_OnlyTheQuitKeyEndsTheLoop ==
    /\ [](pc \in {"terminate", "done"} => should_quit)
    /\ [][(pc # "terminate" /\ pc' = "terminate") => (pc = "refresh" /\ should_quit)]_vars
    /\ [][(~should_quit /\ should_quit') => (pc = "handle" /\ QuitPress)]_vars
    /\ (pc = "handle" /\ QuitPress) ~> (pc \in {"terminate", "done", "failed"})

\* C22 witness: the loop was left after cycles that moved the cursor and a
\* cycle that read Ctrl+Q.
C22_Witness ==
    /\ pc = "terminate"
    /\ should_quit
    /\ location = [col |-> 1, row |-> 1]
    /\ result = "Running"

\* C23: with sizes of at most 65535 in each dimension, a Location whose row
\* and col are at most 65534 (as the origin is) still has them at most 65534
\* after any event was handled, so the Location always stays there, and
\* cursor::move_to(location) in the next refresh does not fail with the
\* coordinate-range error.
C23_LocationFitsTheDevice ==
    /\ location.row <= 65534
    /\ location.col <= 65534
    /\ move_to(location).err = "None"

\* C23 witness: PageDown and End at the largest viewport.
C23_Witness ==
    /\ pc = "handled"
    /\ PressOf("PageDown")
    /\ size.height = 65535
    /\ before.location.row = 0
    /\ location.row = 65534

\* C24: handle_event fails only on a navigation key press whose size query
\* failed; it then returns that io error and leaves the session as it was:
\* the Location keeps its row and col and should_quit its value.
C24_FailedSizeQueryChangesNothing ==
    [][(pc = "handle" /\ pc' = "failed") =>
          /\ NavPress
          /\ result' = "Io"
          /\ location' = location
          /\ should_quit' = should_quit]_vars

\* C24 witness: away from the origin, a navigation key press was read and
\* the size query of move_cursor failed.
C24_Witness ==
    /\ pc = "failed"
    /\ NavPress
    /\ result = "Io"
    /\ location = [col |-> 2, row |-> 1]
    /\ ~should_quit

----------------------------------------------------------------------------
(* Properties of the units.  In a state of UnitSpec with pc other than      *)
(* "unit" the call pc names has returned `result`, having started from an   *)
(* empty sink.                                                               *)

\* C11: cursor::move_to with a column or a row above 65535 returns the
\* TryFromInt error and leaves the sink as it was; with both within 65535 it
\* returns Ok and has queued exactly one MoveTo for that column and row.
C11_MoveToChecksTheRange ==
    pc = "moved" =>
        IF location.col > 65535 \/ location.row > 65535
        THEN result = "TryFromInt" /\ queue = <<>>
        ELSE /\ result = "Ok"
             /\ queue = <<[op |-> "MoveTo", col |-> location.col, row |-> location.row,
                           text |-> <<>>]>>

C11_Witness ==
    /\ pc = "moved"
    /\ location = [col |-> 70000, row |-> 5]
    /\ result = "TryFromInt"
    /\ queue = <<>>

\* s contains sub as a run of consecutive characters.
Contains(s, sub) ==
    \E k \in 0..(Len(s) - Len(sub)) : SubSeq(s, k + 1, k + Len(sub)) = sub

\* "editor -- version"
BannerMark ==
    <<"e", "d", "i", "t", "o", "r", " ", "-", "-", " ", "v", "e", "r", "s", "i", "o", "n">>

\* A line break as terminal::print("\r\n") queues it.
LineBreak == [op |-> "Print", col |-> 0, row |-> 0, text |-> <<"\r", "\n">>]

\* q is `height` rows, each a ClearLine and then one Print, with a line break
\* after every row but the last: row i is printed by q[3i + 2].
RowsAndBreaks(q, height) ==
    /\ Len(q) = 3 * height - 1
    /\ \A i \in 0..(height - 1) :
         /\ q[3 * i + 1].op = "ClearLine"
         /\ q[3 * i + 2].op = "Print"
         /\ q[3 * i + 2] # LineBreak
         /\ i < height - 1 => q[3 * i + 3] = LineBreak
    /\ Cardinality({k \in 1..Len(q) : q[k] = LineBreak}) = height - 1

\* The text of row i of q.
RowText(q, i) == q[3 * i + 2].text

\* C12 as stated: an empty document rendered at height H >= 1 and any width
\* >= 1 gives H rows with H-1 line breaks between them, a clear-line before
\* each, the row H/3 containing "editor -- version" and every other row "~".
C12_Original ==
    (pc = "rendered" /\ buffer = <<>> /\ size.height >= 1 /\ size.width >= 1) =>
        /\ RowsAndBreaks(queue, size.height)
        /\ \A i \in 0..(size.height - 1) :
             IF i = size.height \div 3
             THEN Contains(RowText(queue, i), BannerMark)
             ELSE RowText(queue, i) = <<"~">>

\* C12, amended: the same rows, breaks and clear-lines at every width; the
\* row H/3 is the only one that is not "~" whenever the width is at least 2,
\* and it contains "editor -- version" exactly when the width is at least
\* the length of the name plus 19 (24 for "hecto"): below that the banner row
\* is cut before the end of the substring.
C12_EmptyDocumentScreen ==
    (pc = "rendered" /\ buffer = <<>> /\ size.height >= 1) =>
        /\ RowsAndBreaks(queue, size.height)
        /\ \A i \in 0..(size.height - 1) :
             IF i = size.height \div 3
             THEN /\ Contains(RowText(queue, i), BannerMark) <=> size.width >= Len(NAME) + 19
                  /\ Len(RowText(queue, i)) <= size.width
                  /\ size.width >= 2 => RowText(queue, i) # <<"~">>
             ELSE RowText(queue, i) = <<"~">>

C12_Witness ==
    /\ pc = "rendered"
    /\ buffer = <<>>
    /\ size = [width |-> 24, height |-> 5]
    /\ Contains(RowText(queue, 1), BannerMark)
    /\ RowText(queue, 0) = <<"~">>
    /\ Len(queue) = 14

\* C13: a non-empty document of n lines rendered at height H gives H rows
\* with H-1 line breaks between them and none after the last, a clear-line
\* before each: row i is line i of the document as it is when i < n and "~"
\* when i >= n; no row is a banner row, and the lines from index H on are
\* not printed (at height 0 nothing is queued).
C13_DocumentScreen ==
    (pc = "rendered" /\ buffer # <<>>) =>
        IF size.height = 0
        THEN queue = <<>>
        ELSE /\ RowsAndBreaks(queue, size.height)
             /\ \A i \in 0..(size.height - 1) :
                  /\ RowText(queue, i) = IF i < Len(buffer) THEN buffer[i + 1] ELSE <<"~">>
                  /\ ~Contains(RowText(queue, i), BannerMark)
             /\ Cardinality({k \in 1..Len(queue) : queue[k].op = "Print"})
                    = 2 * size.height - 1

C13_Witness ==
    /\ pc = "rendered"
    /\ buffer = << <<"a">>, <<"b">> >>
    /\ size.height = 5
    /\ [i \in 1..5 |-> RowText(queue, i - 1)] = << <<"a">>, <<"b">>, <<"~">>, <<"~">>, <<"~">> >>

\* "<name> editor -- version <version>"
BannerText == NAME \o <<" ">> \o BannerMark \o <<" ">> \o VERSION

\* row is "~", then max(padding - 1, 0) spaces with
\* padding = max(w - len, 0) / 2, then the banner text, cut to w characters.
IsBannerRow(row, w) ==
    LET len == Len(BannerText)
        padding == (IF w > len THEN w - len ELSE 0) \div 2
        spaces == IF padding >= 1 THEN padding - 1 ELSE 0
        whole == 1 + spaces + len
    IN  /\ Len(row) = (IF w < whole THEN w ELSE whole)
        /\ \A k \in 1..Len(row) :
             row[k] = IF k = 1 THEN "~"
                      ELSE IF k <= 1 + spaces THEN " "
                      ELSE BannerText[k - 1 - spaces]
        /\ Len(row) <= w
        /\ w <= len => row = SubSeq(<<"~">> \o BannerText, 1, w)

\* C14: at every width the banner row printed, by render_welcome_row on its
\* own and by Editor::refresh in row height/3 of its frame, is "~", then
\* max(padding - 1, 0) spaces where padding = max(width - len(banner), 0) / 2,
\* then the banner text, cut to the first `width` characters: it is never
\* longer than the width, and at a width of at most len(banner) it is the
\* first `width` characters of "~" followed by the banner.
C14_BannerRow ==
    /\ pc = "welcome" =>
          /\ Len(queue) = 1
          /\ queue[1].op = "Print"
          /\ IsBannerRow(queue[1].text, size.width)
    /\ (pc = "refreshed" /\ size.height >= 1) =>
          /\ flushed[3 * (size.height \div 3) + 4].op = "Print"
          /\ IsBannerRow(flushed[3 * (size.height \div 3) + 4].text, size.width)

C14_Witness ==
    /\ pc = "welcome"
    /\ size.width = 33
    /\ Len(queue[1].text) = 31
    /\ SubSeq(queue[1].text, 1, 3) = <<"~", " ", "h">>

\* The rows of a running frame: what refresh wrote between the move to the
\* origin and the move to the location.
FrameRows(frame) == SubSeq(frame, 3, Len(frame) - 2)

\* C19: the frame of a running cycle is the rendering of the session's
\* document at the queried size: for a non-empty document row i is line i of
\* the document when there is one and "~" otherwise, and the banner screen
\* appears only for the empty document.
C19_Original ==
    (pc = "refreshed" /\ size.height >= 1) =>
        /\ RowsAndBreaks(FrameRows(flushed), size.height)
        /\ \A i \in 0..(size.height - 1) :
             IF buffer # <<>>
             THEN RowText(FrameRows(flushed), i)
                    = IF i < Len(buffer) THEN buffer[i + 1] ELSE <<"~">>
             ELSE IF i = size.height \div 3
                  THEN IsBannerRow(RowText(FrameRows(flushed), i), size.width)
                  ELSE RowText(FrameRows(flushed), i) = <<"~">>

\* The positions of "\n" in c.
Newlines(c) == {k \in 1..Len(c) : c[k] = "\n"}

\* The position of the i-th "\n" of c.
NthNewline(c, i) ==
    CHOOSE k \in Newlines(c) : Cardinality({j \in Newlines(c) : j <= k}) = i

\* Line i (from 1) of the text c: what lies between the line endings around
\* it, a line ending being "\n" or "\r\n".
FileLine(c, i) ==
    LET first == IF i = 1 THEN 1 ELSE NthNewline(c, i - 1) + 1
        ended == i <= Cardinality(Newlines(c))
        last == IF ended THEN NthNewline(c, i) - 1 ELSE Len(c)
    IN  IF ended /\ last >= first /\ c[last] = "\r"
        THEN SubSeq(c, first, last - 1)
        ELSE SubSeq(c, first, last)

\* How many lines the text c has: one for each "\n", and one more for a
\* non-empty rest after the last "\n".
FileLineCount(c) ==
    Cardinality(Newlines(c)) + (IF c # <<>> /\ c[Len(c)] # "\n" THEN 1 ELSE 0)

\* C20: View::load reports no error; when the load fails the document is
\* exactly what it was before the call, so a fresh View keeps the empty
\* document, the one rendered as the banner screen; when it succeeds the
\* document is the lines of the file in order, without their line endings.
C20_LoadIsSoft ==
    pc = "loaded" =>
        /\ result = "Ok"
        /\ ~file.ok =>
              /\ buffer = oldBuffer
              /\ oldBuffer = <<>> => render(buffer, size) = render_welcome(size)
        /\ file.ok =>
              /\ Len(buffer) = FileLineCount(file.contents)
              /\ \A i \in 1..Len(buffer) :
                   /\ buffer[i] = FileLine(file.contents, i)
                   /\ \A k \in 1..Len(buffer[i]) : buffer[i][k] # "\n"

C20_Witness ==
    /\ pc = "loaded"
    /\ ~file.ok
    /\ oldBuffer = << <<"a">>, <<"b">> >>
    /\ buffer = oldBuffer
    /\ result = "Ok"

C26_EmptyViewport ==
    /\ (pc = "handled" /\ size.height = 0 /\ (PressOf("Down") \/ PressOf("PageDown"))) =>
          location = [col |-> before.location.col, row |-> 0]
    /\ (pc = "handled" /\ size.width = 0 /\ (PressOf("Right") \/ PressOf("End"))) =>
          location = [col |-> 0, row |-> before.location.row]
    /\ (pc = "rendered" /\ size.height = 0) => queue = <<>>
    /\ (pc = "refreshed" /\ size.height = 0) =>
          /\ Len(flushed) = 4
          /\ FrameRows(flushed) = <<>>
    /\ (pc = "welcome" /\ size.width = 0) =>
          queue = <<[op |-> "Print", col |-> 0, row |-> 0, text |-> <<>>]>>
    /\ (pc = "rendered" /\ buffer = <<>> /\ size.width = 0 /\ size.height >= 1) =>
          RowText(queue, size.height \div 3) = <<>>
    /\ (pc = "refreshed" /\ size.width = 0 /\ size.height >= 1) =>
          RowText(FrameRows(flushed), size.height \div 3) = <<>>

\* C26 witness: Down was pressed at row 2 of a viewport that had shrunk to
\* height 0.
C26_Witness ==
    /\ pc = "handled"
    /\ PressOf("Down")
    /\ size.height = 0
    /\ before.location = [col |-> 1, row |-> 2]
    /\ location = [col |-> 1, row |-> 0]

----------------------------------------------------------------------------
(* Properties of a redraw cycle on the sink of the program (CycleSpec) *)

\* C15: the terminal calls of a redraw cycle only queue: until the flush of
\* the cycle the device has received nothing, each call adds exactly its
\* command to what the sink holds, and the one flush, made after the whole
\* frame was queued, hands the device the complete frame.
C15_Original ==
    /\ pc \in {"cycle", "failed"} =>
          /\ device = <<>>
          /\ queue = SubSeq(refresh(should_quit, location, size).cmds, 1, issued)
    /\ pc = "flushed" =>
          /\ issued = Len(refresh(should_quit, location, size).cmds)
          /\ device = refresh(should_quit, location, size).cmds
          /\ queue = <<>>

====
